---- MODULE Spec2Model ----
(***************************************************************************)
(* Model of the napari language-pack tooling:                              *)
(*   scripts/update_catalogs.py      - the catalog update run              *)
(*   template/hooks/pre_gen_project.py - the locale validation hook        *)
(*                                                                         *)
(* Strings are sequences of one-character strings, so that concatenation,  *)
(* str.replace, os.path.join and sorted() are computed and not assumed.    *)
(***************************************************************************)
EXTENDS Integers, Sequences, FiniteSets

VARIABLES
    repoMap,       \* repository-map.yml after load_repo_map: name -> [url, version]
    argv,          \* sys.argv[1:]
    crowdinFile,   \* crowdin.yml as text: a sequence of lines
    crowdin0,      \* crowdin.yml as it was before the run
    crowdinWritten, \* crowdin.yml as update_crowdin_config wrote it
    mirrors,       \* repos/<name>: [exists, refs, head] per directory name
    mirrors0,      \* the mirrors as they were before the run
    reposDir,      \* the folder REPO_ROOT/repos exists
    outer,         \* the git checkout REPO_ROOT is part of: [git, refs, head]
    catalogs,      \* the files under REPO_ROOT the run reads and writes: path -> text
    catalogs0,     \* those files as they were before the run
    babelOut,      \* what the extraction tool writes when it succeeds (a template)
    pc,            \* position of the run
    packages,      \* the list `packages` of __main__
    idx,           \* position of the for loop in `packages` (1-based)
    calls,         \* functions called so far, with how each returned
    cmds,          \* external commands run so far, with cwd and exit status
    exitCode,      \* exit status of the process, -1 while it runs
    locale,        \* cookiecutter.locale
    locale_underscore, \* cookiecutter.locale_underscore
    hookExit       \* exit status of the hook, -1 while it has not run

vars == <<repoMap, argv, crowdinFile, crowdin0, crowdinWritten, mirrors, mirrors0, reposDir,
          outer, catalogs, catalogs0, babelOut, pc, packages, idx, calls, cmds, exitCode,
          locale, locale_underscore, hookExit>>

runVars == <<repoMap, argv, crowdinFile, crowdin0, crowdinWritten, mirrors,
             mirrors0, reposDir, outer, catalogs, catalogs0, babelOut, pc, packages, idx, calls, cmds, exitCode>>

hookVars == <<locale, locale_underscore, hookExit>>

---------------------------------------------------------------------------
(* Bounds of the model *)

\* largest number of packages in the repository map
MaxPkgs == 2

\* largest number of command-line arguments
MaxArgs == 2

\* largest number of pieces of the text the extraction tool writes
MaxTokens == 4

---------------------------------------------------------------------------
(* Characters and strings *)

\* the characters used, in code point order
Chars == <<" ", "%", "-", ".", "/", "1", ":",
           "A", "B", "C", "D", "E", "F", "G", "H", "I", "J", "K", "L", "M",
           "N", "O", "P", "Q", "R", "S", "T", "U", "V", "W", "X", "Y", "Z",
           "_",
           "a", "b", "c", "d", "e", "f", "g", "h", "i", "j", "k", "l", "m",
           "n", "o", "p", "q", "r", "s", "t", "u", "v", "w", "x", "y", "z">>

\* ord(c), as a table over the characters used
OrdTable == [c \in {Chars[i] : i \in 1..Len(Chars)} |->
                CHOOSE i \in 1..Len(Chars) : Chars[i] = c]

Ord(c) == OrdTable[c]

S_napari == <<"n","a","p","a","r","i">>
S_root_source == <<"/","n","a","p","a","r","i","/","l","o","c","a","l","e","/","n","a","p","a","r","i",".","p","o","t">>
S_root_translation == <<"/","n","a","p","a","r","i","/","l","o","c","a","l","e","/","%","l","o","c","a","l","e","_","w","i","t","h","_","u","n","d","e","r","s","c","o","r","e","%","/","L","C","_","M","E","S","S","A","G","E","S","/","%","f","i","l","e","_","n","a","m","e","%",".","p","o">>
S_plugins_prefix == <<"/","p","l","u","g","i","n","s","/">>
S_locale_mid == <<"/","l","o","c","a","l","e","/">>
S_pot == <<".","p","o","t">>
S_locale_dir == <<"/","l","o","c","a","l","e">>
S_translation_tail == <<"/","%","l","o","c","a","l","e","_","w","i","t","h","_","u","n","d","e","r","s","c","o","r","e","%","/","L","C","_","M","E","S","S","A","G","E","S","/","%","f","i","l","e","_","n","a","m","e","%",".","p","o">>
S_plugins == <<"p","l","u","g","i","n","s">>
S_locale == <<"l","o","c","a","l","e">>
S_files == <<"f","i","l","e","s">>
S_dotgit == <<".","g","i","t">>
S_origin == <<"o","r","i","g","i","n">>
S_project_id == <<"p","r","o","j","e","c","t","_","i","d">>
S_base_path == <<"b","a","s","e","_","p","a","t","h">>
S_old == <<"o","l","d">>
S_older == <<"o","l","d","e","r">>
S_url_base == <<"h","t","t","p","s",":","/","/","h","/">>

\* REPO_ROOT: the absolute path of the checkout (any absolute path; a short one here)
REPO_ROOT == <<"/","r">>
REPOSITORIES_FOLDER == <<"r","e","p","o","s">>

\* a starts with b at position i (1-based)
OccursAt(a, b, i) ==
    /\ i >= 1
    /\ i + Len(b) - 1 <= Len(a)
    /\ \A k \in 1..Len(b) : a[i + k - 1] = b[k]

\* `b in a` for strings
Contains(a, b) == \E i \in 1..(Len(a) + 1) : OccursAt(a, b, i)

\* a < b for strings: code point order, a proper prefix first
StrLess(a, b) ==
    \E k \in 1..(Len(b)) :
        /\ k <= Len(a) + 1
        /\ \A j \in 1..(k - 1) : a[j] = b[j]
        /\ (k = Len(a) + 1 \/ Ord(a[k]) < Ord(b[k]))


\* str.replace(old, new) from position i on: leftmost matches, never rescanned
RECURSIVE ReplaceFrom(_, _, _, _)
ReplaceFrom(s, old, new, i) ==
    IF i > Len(s) THEN <<>>
    ELSE IF OccursAt(s, old, i)
         THEN new \o ReplaceFrom(s, old, new, i + Len(old))
         ELSE <<s[i]>> \o ReplaceFrom(s, old, new, i + 1)

\* s.replace(old, new), old not empty
StrReplace(s, old, new) == ReplaceFrom(s, old, new, 1)

\* os.path.join(a, b) on POSIX
PathJoin(a, b) ==
    IF Len(b) > 0 /\ b[1] = "/" THEN b
    ELSE IF Len(a) = 0 \/ a[Len(a)] = "/" THEN a \o b
    ELSE a \o <<"/">> \o b

\* sorted(S) for a set of strings
RECURSIVE Sorted(_)
Sorted(S) ==
    IF S = {} THEN <<>>
    ELSE LET m == CHOOSE x \in S : \A y \in S \ {x} : StrLess(x, y)
         IN  <<m>> \o Sorted(S \ {m})

---------------------------------------------------------------------------
(* crowdin.yml: yaml.safe_load and yaml.safe_dump *)

\* A line of the file is a comment or a top-level `key: value` pair.
CommentLine == [kind |-> "comment", key |-> <<>>, value |-> <<>>]
PairLine(k, v) == [kind |-> "pair", key |-> k, value |-> v]

\* yaml.safe_load: a mapping; comments are dropped, a repeated key keeps its
\* last value
SafeLoad(text) ==
    LET keys == {text[i].key : i \in {j \in 1..Len(text) : text[j].kind = "pair"}}
        last(k) == CHOOSE i \in 1..Len(text) :
                      /\ text[i].kind = "pair" /\ text[i].key = k
                      /\ \A j \in (i + 1)..Len(text) :
                            ~(text[j].kind = "pair" /\ text[j].key = k)
    IN  [k \in keys |-> text[last(k)].value]

\* yaml.safe_dump: one pair per key, keys sorted (sort_keys defaults to True)
SafeDump(data) ==
    LET ks == Sorted(DOMAIN data)
    IN  [i \in 1..Len(ks) |-> PairLine(ks[i], data[ks[i]])]

\* load_crowdin
load_crowdin(file) == SafeLoad(file)

\* the text save_crowdin writes
save_crowdin(data) == SafeDump(data)

---------------------------------------------------------------------------
(* update_crowdin_config *)

RootFileEntry ==
    [source |-> S_root_source, translation |-> S_root_translation]

PluginFileEntry(pkg_name) ==
    LET pkg_name_norm == StrReplace(pkg_name, <<"-">>, <<"_">>)
    IN  [source |-> S_plugins_prefix \o pkg_name_norm \o S_locale_mid
                      \o pkg_name_norm \o S_pot,
         translation |-> S_plugins_prefix \o pkg_name_norm \o S_locale_dir
                      \o S_translation_tail]

\* AppendPlugins with a fault: the test `pkg_name != "napari"` is missing
RECURSIVE AppendPluginsAll(_, _, _)
AppendPluginsAll(names, i, acc) ==
    IF i > Len(names) THEN acc
    ELSE AppendPluginsAll(names, i + 1, Append(acc, PluginFileEntry(names[i])))

\* the loop `for pkg_name in sorted(data)` from position i on
RECURSIVE AppendPlugins(_, _, _)
AppendPlugins(names, i, acc) ==
    IF i > Len(names) THEN acc
    ELSE IF names[i] # S_napari
         THEN AppendPlugins(names, i + 1, Append(acc, PluginFileEntry(names[i])))
         ELSE AppendPlugins(names, i + 1, acc)

\* the list `packages` built by update_crowdin_config from the repository map
CrowdinPackages(data) ==
    AppendPlugins(Sorted(DOMAIN data), 1, <<RootFileEntry>>)

\* SetFiles with a fault: a new mapping that holds the `files` section alone
SetFilesOnly(crowdin_data, pkgs) == [k \in {S_files} |-> pkgs]

\* crowdin_data after crowdin_data["files"] = packages
SetFiles(crowdin_data, pkgs) ==
    [k \in DOMAIN crowdin_data |->
        IF k = S_files THEN pkgs ELSE crowdin_data[k]]

\* update_crowdin_config: the text of crowdin.yml it leaves, for a file that
\* has a `files` section
update_crowdin_config(file, data) ==
    save_crowdin(SetFiles(load_crowdin(file), CrowdinPackages(data)))

\* crowdin_data["files"] raises KeyError
RaisesKeyError(file) == S_files \notin DOMAIN load_crowdin(file)

---------------------------------------------------------------------------
(* update_repo *)

\* what the remote of every package offers, and the branch a clone checks out
RemoteRefs == {"main", "v1", "v2"}
DefaultBranch == "main"

NoMirror == [exists |-> FALSE, refs |-> {}, head |-> "none"]
ClonedMirror == [exists |-> TRUE, refs |-> RemoteRefs, head |-> DefaultBranch]
PartialMirror == [exists |-> TRUE, refs |-> {}, head |-> "none"]

repos_path == PathJoin(REPO_ROOT, REPOSITORIES_FOLDER)
clone_path(package_name) == PathJoin(repos_path, package_name)

Cmd(tool, verb, operands, cwd, rc) ==
    [tool |-> tool, verb |-> verb, operands |-> operands, cwd |-> cwd, rc |-> rc]

\* the directory `git fetch origin` runs in (the cwd given to Popen)
FetchCwd(package_name) == repos_path

\* the directory is a git repository of its own
IsRepository(m) == m.exists /\ m.head # "none"

\* REPO_ROOT is part of no git checkout
NoCheckout == [git |-> FALSE, refs |-> {}, head |-> "none"]

\* Exit statuses: 0, or 1 for any status that is not 0.

\* the refs a fetch may bring into the checkout REPO_ROOT is part of, when its
\* origin has them
OuterNewRefs == {"v2"}

\* first command of update_repo: clone when the directory is missing, else
\* fetch. Without the folder repos_path Popen raises before any command runs
\* (cmd is <<>>). A failed clone leaves no directory or a partial one. The
\* fetch runs in FetchCwd, which is not the mirror: it acts on the checkout
\* repos_path is part of, fails when there is none, brings in the refs the
\* origin of that checkout has (none new, or OuterNewRefs), and the mirror's
\* refs stay as they are.
FirstStep(m, package_name, url, repos_dir, o) ==
    IF ~m.exists
    THEN IF ~repos_dir
         THEN { [m |-> m, outer |-> o, cmd |-> <<>>, raised |-> TRUE] }
         ELSE LET c(rc) == Cmd("git", "clone", <<url \o S_dotgit, package_name>>,
                               repos_path, rc)
              IN  { [m |-> ClonedMirror, outer |-> o, cmd |-> <<c(0)>>,
                     raised |-> FALSE],
                    [m |-> m, outer |-> o, cmd |-> <<c(1)>>, raised |-> FALSE],
                    [m |-> PartialMirror, outer |-> o, cmd |-> <<c(1)>>,
                     raised |-> FALSE] }
    ELSE LET c(rc) == Cmd("git", "fetch", <<S_origin>>, FetchCwd(package_name), rc)
         IN  { [m |-> m, outer |-> o, cmd |-> <<c(1)>>, raised |-> FALSE] }
             \cup (IF o.git
                   THEN { [m |-> m,
                           outer |-> [o EXCEPT !.refs = o.refs \cup new],
                           cmd |-> <<c(0)>>, raised |-> FALSE]
                          : new \in {{}, OuterNewRefs} }
                   ELSE {})

\* files with the file at path set to text
WriteFile(files, path, text) ==
    [x \in DOMAIN files \cup {path} |-> IF x = path THEN text ELSE files[x]]

\* The checkout REPO_ROOT is part of tracks files of REPO_ROOT: crowdin.yml
\* and any of the catalogs. What its refs hold of them: a catalog that a ref
\* tracks is S_old at main and S_older at every other ref (which catalogs a
\* ref tracks is not fixed); crowdin.yml at a ref other than main is
\* OlderConfig.
TrackedCatalog(ref) == IF ref = "main" THEN S_old ELSE S_older

OldFileEntry == [source |-> S_old, translation |-> S_old]

OlderConfig == <<PairLine(S_files, <<OldFileEntry>>)>>

\* files without the files of R, and with the files of W set to text
Rewrite(files, W, R, text) ==
    [x \in (DOMAIN files \cup W) \ R |-> IF x \in W THEN text ELSE files[x]]

\* what a git checkout that moves the head of the enclosing checkout from ref
\* h to ref v does to the working files, as a set of [config, files]; paths
\* are the catalog paths of the packages of the repository map. git writes
\* the tracked files that differ between h and v, those missing from the
\* working directory included, removes those v does not hold, and refuses
\* (the outcome with status 1) when one of them has local changes. So a
\* catalog that is missing, or is what h holds, may be written (W); one that
\* is what h holds may be removed (R); one with local changes stays.
\* crowdin.yml, written at line 162, is left when it is a local change or
\* the same in both refs, and rewritten when it is what h holds.
SwitchFiles(h, v, config, files, paths) ==
    IF TrackedCatalog(h) = TrackedCatalog(v)
    THEN { [config |-> config, files |-> files] }
    ELSE LET clean == {x \in DOMAIN files \cap paths : files[x] = TrackedCatalog(h)}
             missing == paths \ DOMAIN files
         IN  { [config |-> cf,
                files |-> Rewrite(files, W, R, TrackedCatalog(v))]
               : cf \in {config, OlderConfig},
                 W \in SUBSET (clean \cup missing),
                 R \in SUBSET clean }

\* git checkout version with cwd = clone_path, as a set of [m, outer, config,
\* files, cmd]. In a mirror that is a repository it moves the head to a ref
\* the mirror knows; a version that is no ref is taken as a path, and the
\* command succeeds with the head where it was when the repository tracks a
\* file of that name; it may always fail (unknown name, local changes in the
\* way). In a directory that is no repository git acts on the checkout the
\* directory is part of, in the same way: the head of that checkout moves,
\* its tracked files in REPO_ROOT are rewritten (SwitchFiles), and the mirror
\* stays as it is.
Checkout(m, o, package_name, version, config, files, paths) ==
    LET c(rc) == Cmd("git", "checkout", <<version>>, clone_path(package_name), rc)
        same(rc) == [m |-> m, outer |-> o, config |-> config, files |-> files,
                     cmd |-> c(rc)]
    IN  { same(1) }
        \cup (IF IsRepository(m)
              THEN (IF version \in m.refs
                    THEN { [same(0) EXCEPT !.m = [m EXCEPT !.head = version]] }
                    ELSE { same(0) })
              ELSE (IF o.git
                    THEN (IF version \in o.refs
                          THEN { [same(0) EXCEPT
                                    !.outer = [o EXCEPT !.head = version],
                                    !.config = w.config, !.files = w.files]
                                 : w \in SwitchFiles(o.head, version, config, files,
                                                     paths) }
                          ELSE { same(0) })
                    ELSE {}))

\* update_repo(package_name, url, version) on mirror m, with the folder
\* repos_path there or not, REPO_ROOT part of the checkout o, the working
\* files config (crowdin.yml) and files (the catalogs), and the catalog paths
\* of the packages of the repository map: every outcome, as
\* [m: the mirror after, outer: the checkout after, config and files: the
\* working files after, cmds: the commands run, raised: Popen raised because
\* its cwd is no directory]
update_repo(m, package_name, url, version, repos_dir, o, config, files, paths) ==
    UNION { IF f.raised \/ ~f.m.exists
            THEN { [m |-> f.m, outer |-> f.outer, config |-> config,
                    files |-> files, cmds |-> f.cmd, raised |-> TRUE] }
            ELSE { [m |-> c.m, outer |-> c.outer, config |-> c.config,
                    files |-> c.files, cmds |-> f.cmd \o <<c.cmd>>,
                    raised |-> FALSE]
                   : c \in Checkout(f.m, f.outer, package_name, version,
                                    config, files, paths) }
            : f \in FirstStep(m, package_name, url, repos_dir, o) }

---------------------------------------------------------------------------
(* update_catalog *)

\* pieces of the text the extraction tool writes; ROOT stands for the absolute
\* path of the mirror, REF for a file reference below it, HEAD and TAIL for
\* the two halves of that path
Tokens == {"ROOT", "REF", "SP", "SLASH", "HEAD", "TAIL"}

Piece(tok, dir) ==
    LET h == Len(dir) \div 2
    IN  CASE tok = "ROOT"  -> dir
          [] tok = "REF"   -> dir \o <<"/", "f">>
          [] tok = "SP"    -> <<" ">>
          [] tok = "SLASH" -> <<"/">>
          [] tok = "HEAD"  -> SubSeq(dir, 1, h)
          [] tok = "TAIL"  -> SubSeq(dir, h + 1, Len(dir))

\* the text for a template, for the mirror at dir
RECURSIVE Instantiate(_, _)
Instantiate(template, dir) ==
    IF template = <<>> THEN <<>>
    ELSE Piece(Head(template), dir) \o Instantiate(Tail(template), dir)

package_repo_dir(package_name) ==
    PathJoin(PathJoin(REPO_ROOT, REPOSITORIES_FOLDER), package_name)

\* the path update_catalog writes the catalog to
CatalogOutput(package_name) ==
    IF package_name = S_napari
    THEN PathJoin(PathJoin(PathJoin(REPO_ROOT, package_name), S_locale),
                  package_name \o S_pot)
    ELSE PathJoin(PathJoin(PathJoin(PathJoin(REPO_ROOT, S_plugins), package_name),
                           S_locale),
                  package_name \o S_pot)

\* StripRoot with a fault: only the first occurrence is removed
StripRootFirstOnly(data, dir) ==
    LET old == dir \o <<"/">>
        hits == {i \in 1..Len(data) : OccursAt(data, old, i)}
    IN  IF hits = {} THEN data
        ELSE LET i == CHOOSE h \in hits : \A g \in hits : h <= g
             IN  SubSeq(data, 1, i - 1) \o SubSeq(data, i + Len(old), Len(data))

\* "Remove root path from messages"
StripRoot(data, dir) == StrReplace(data, dir \o <<"/">>, <<>>)

\* update_catalog(package_name, version) on the files: every outcome, as
\* [files: the files after, cmds, raised: open(output) raised because the
\* tool wrote no file and none was there]. tmpl is what the tool writes when
\* it succeeds, which the folders _get_all_dirs finds decide; when it fails
\* it writes nothing.
update_catalog(files, package_name, tmpl) ==
    LET dir == package_repo_dir(package_name)
        output == CatalogOutput(package_name)
        c(rc) == Cmd("pybabel", "extract", <<output>>, REPO_ROOT, rc)
        after(rc) == IF rc = 0
                     THEN WriteFile(files, output, Instantiate(tmpl, dir))
                     ELSE files
    IN  { IF output \notin DOMAIN after(rc)
          THEN [files |-> after(rc), cmds |-> <<c(rc)>>, raised |-> TRUE]
          ELSE [files |-> WriteFile(after(rc), output,
                                    StripRoot(after(rc)[output], dir)),
                cmds |-> <<c(rc)>>, raised |-> FALSE]
          : rc \in {0, 1} }

---------------------------------------------------------------------------
(* __main__ *)

\* ExitsEarly with a fault: two arguments are let through
ExitsEarlyOver2(args) == Len(args) > 2

\* sys.exit(0) on more than one argument
ExitsEarly(args) == Len(args) # 1 /\ Len(args) # 0

\* SelectPackages with a fault: the argument is ignored
SelectPackagesAll(args, data) == Sorted(DOMAIN data)

\* SelectPackages with a fault: the keys are taken unsorted (here: in reverse)
SelectPackagesUnsorted(args, data) ==
    IF Len(args) = 1
    THEN (IF args[1] \in DOMAIN data THEN <<args[1]>> ELSE <<>>)
    ELSE LET srt == Sorted(DOMAIN data)
         IN  [i \in 1..Len(srt) |-> srt[Len(srt) + 1 - i]]

\* the list `packages` for zero or one argument
SelectPackages(args, data) ==
    IF Len(args) = 1
    THEN (IF args[1] \in DOMAIN data THEN <<args[1]>> ELSE <<>>)
    ELSE Sorted(DOMAIN data)

---------------------------------------------------------------------------
(* Inputs of a run *)

N_ab == <<"a","-","b">>
N_z == <<"z">>
N_x == <<"x">>

\* names a repository map may hold, and names given on the command line
PoolNames == {S_napari, N_ab, N_z}
ArgNames == {S_napari, N_ab, N_x}
AllNames == PoolNames \cup ArgNames

Versions == {"v1", "v2"}

UrlOf(name) == S_url_base \o name

\* the repository maps: up to MaxPkgs packages, all tracking one version
RepoMaps ==
    UNION { { [n \in S |-> [url |-> UrlOf(n), version |-> v]]
              : v \in Versions }
            : S \in {T \in SUBSET PoolNames : Cardinality(T) <= MaxPkgs} }

Argvs == UNION { [1..k -> ArgNames] : k \in 0..MaxArgs }

\* a mirror cloned when the remote had no v2 yet
OldMirror == [exists |-> TRUE, refs |-> {"main", "v1"}, head |-> "v1"]

\* the checkouts REPO_ROOT may be part of: none, or one that has a ref v1
OuterCheckout == [git |-> TRUE, refs |-> {"main", "v1"}, head |-> "main"]
Outers == {NoCheckout, OuterCheckout}

\* what may be at repos/<name> before a run
MirrorsBefore == {NoMirror, OldMirror, PartialMirror}

\* the packages an earlier run left a catalog of
EarlierCatalogs == {S_napari, N_ab}

\* a config with a comment, a stale `files` list and two other sections, not
\* in key order; and a config without a `files` section
CrowdinFiles ==
    { <<CommentLine, PairLine(S_project_id, <<"1">>),
        PairLine(S_files, <<OldFileEntry>>), PairLine(S_base_path, <<".">>)>>,
      <<PairLine(S_project_id, <<"1">>)>> }

\* what the extraction tool writes in a run: two file references
RunTemplates == { <<"REF", "SP", "REF">> }

Call(fn, pkg, ret) == [fn |-> fn, pkg |-> pkg, ret |-> ret]

InitHookIdle ==
    /\ locale = <<>>
    /\ locale_underscore = <<>>
    /\ hookExit = -1

Init ==
    /\ repoMap \in RepoMaps
    /\ argv \in Argvs
    /\ crowdinFile \in CrowdinFiles
    /\ crowdin0 = crowdinFile
    /\ crowdinWritten = <<>>
    /\ \E have \in [DOMAIN repoMap -> MirrorsBefore] :
          mirrors = [n \in AllNames |->
                        IF n \in DOMAIN repoMap THEN have[n] ELSE NoMirror]
    /\ mirrors0 = mirrors
    /\ reposDir \in {b \in BOOLEAN : (\E n \in AllNames : mirrors[n].exists) => b}
    /\ outer \in Outers
    /\ catalogs = [path \in {CatalogOutput(n) : n \in DOMAIN repoMap \cap EarlierCatalogs}
                         |-> S_old]
    /\ catalogs0 = catalogs
    /\ babelOut \in RunTemplates
    /\ pc = "start"
    /\ packages = <<>>
    /\ idx = 1
    /\ calls = <<>>
    /\ cmds = <<>>
    /\ exitCode = -1
    /\ InitHookIdle

---------------------------------------------------------------------------
(* The steps of a run *)

\* line 162: update_crowdin_config(); an uncaught KeyError ends the run
Sync ==
    /\ pc = "start"
    /\ IF RaisesKeyError(crowdinFile)
       THEN /\ calls' = Append(calls, Call("update_crowdin_config", <<>>, "raised"))
            /\ pc' = "crashed"
            /\ exitCode' = 1
            /\ UNCHANGED <<crowdinFile, crowdinWritten>>
       ELSE /\ crowdinFile' = update_crowdin_config(crowdinFile, repoMap)
            /\ crowdinWritten' = crowdinFile'
            /\ calls' = Append(calls, Call("update_crowdin_config", <<>>, "ok"))
            /\ pc' = "synced"
            /\ UNCHANGED exitCode
    /\ UNCHANGED <<repoMap, argv, crowdin0, mirrors, mirrors0, reposDir, outer,
                   catalogs, catalogs0, babelOut, packages, idx, cmds>>
    /\ UNCHANGED hookVars

\* lines 164-172: the scope of the run, or sys.exit(0)
ResolveScope ==
    /\ pc = "synced"
    /\ IF ExitsEarly(argv)
       THEN /\ pc' = "exited"
            /\ exitCode' = 0
            /\ UNCHANGED packages
       ELSE /\ packages' = SelectPackages(argv, repoMap)
            /\ pc' = "loop"
            /\ UNCHANGED exitCode
    /\ UNCHANGED <<repoMap, argv, crowdinFile, crowdin0, crowdinWritten, mirrors,
                   mirrors0, reposDir, outer, catalogs, catalogs0, babelOut, idx,
                   calls, cmds>>
    /\ UNCHANGED hookVars

\* lines 174-178: the progress notice and update_repo for the next package
UpdateRepo ==
    /\ pc = "loop"
    /\ idx <= Len(packages)
    /\ LET package_name == packages[idx]
           url == repoMap[package_name].url
           version == repoMap[package_name].version
       IN  \E o \in update_repo(mirrors[package_name], package_name, url, version,
                                reposDir, outer, crowdinFile, catalogs,
                                {CatalogOutput(n) : n \in DOMAIN repoMap}) :
              /\ mirrors' = [mirrors EXCEPT ![package_name] = o.m]
              /\ outer' = o.outer
              /\ crowdinFile' = o.config
              /\ catalogs' = o.files
              /\ cmds' = cmds \o o.cmds
              /\ calls' = calls \o
                    << Call("echo_updating", package_name, "ok"),
                       Call("update_repo", package_name,
                            IF o.raised THEN "raised" ELSE "ok") >>
              /\ pc' = IF o.raised THEN "crashed" ELSE "repo_done"
              /\ exitCode' = IF o.raised THEN 1 ELSE exitCode
    /\ UNCHANGED <<repoMap, argv, crowdin0, crowdinWritten, mirrors0, reposDir,
                   catalogs0, babelOut, packages, idx>>
    /\ UNCHANGED hookVars

\* line 179: update_catalog for the package, then the next iteration
UpdateCatalog ==
    /\ pc = "repo_done"
    /\ LET package_name == packages[idx]
       IN  \E o \in update_catalog(catalogs, package_name, babelOut) :
              /\ catalogs' = o.files
              /\ cmds' = cmds \o o.cmds
              /\ calls' = Append(calls, Call("update_catalog", package_name,
                                             IF o.raised THEN "raised" ELSE "ok"))
              /\ pc' = IF o.raised THEN "crashed" ELSE "loop"
              /\ exitCode' = IF o.raised THEN 1 ELSE exitCode
              /\ idx' = IF o.raised THEN idx ELSE idx + 1
    /\ UNCHANGED <<repoMap, argv, crowdinFile, crowdin0, crowdinWritten, mirrors,
                   mirrors0, reposDir, outer, catalogs0, babelOut, packages>>
    /\ UNCHANGED hookVars

\* lines 181-186: the completion notice; the script ends with status 0
Finish ==
    /\ pc = "loop"
    /\ idx > Len(packages)
    /\ calls' = Append(calls, Call("echo_done", <<>>, "ok"))
    /\ pc' = "done"
    /\ exitCode' = 0
    /\ UNCHANGED <<repoMap, argv, crowdinFile, crowdin0, crowdinWritten, mirrors,
                   mirrors0, reposDir, outer, catalogs, catalogs0, babelOut,
                   packages, idx, cmds>>
    /\ UNCHANGED hookVars

Next == Sync \/ ResolveScope \/ UpdateRepo \/ UpdateCatalog \/ Finish

Spec == Init /\ [][Next]_vars

---------------------------------------------------------------------------
(* template/hooks/pre_gen_project.py *)

UpperLetters == <<"A", "B", "C", "D", "E", "F", "G", "H", "I", "J", "K", "L", "M",
                  "N", "O", "P", "Q", "R", "S", "T", "U", "V", "W", "X", "Y", "Z">>
LowerLetters == <<"a", "b", "c", "d", "e", "f", "g", "h", "i", "j", "k", "l", "m",
                  "n", "o", "p", "q", "r", "s", "t", "u", "v", "w", "x", "y", "z">>

IsUpper(c) == \E i \in 1..Len(UpperLetters) : UpperLetters[i] = c
IsLower(c) == \E i \in 1..Len(LowerLetters) : LowerLetters[i] = c
IsLetter(c) == IsUpper(c) \/ IsLower(c)
IsDigit(c) == c = "1"

LowerChar(c) ==
    IF IsUpper(c)
    THEN LowerLetters[CHOOSE i \in 1..Len(UpperLetters) : UpperLetters[i] = c]
    ELSE c

UpperChar(c) ==
    IF IsLower(c)
    THEN UpperLetters[CHOOSE i \in 1..Len(LowerLetters) : LowerLetters[i] = c]
    ELSE c

\* str.lower, str.upper, str.isalpha, str.isdigit
StrLower(s) == [i \in 1..Len(s) |-> LowerChar(s[i])]
StrUpper(s) == [i \in 1..Len(s) |-> UpperChar(s[i])]
IsAlpha(s) == Len(s) > 0 /\ \A i \in 1..Len(s) : IsLetter(s[i])
IsAllDigits(s) == Len(s) > 0 /\ \A i \in 1..Len(s) : IsDigit(s[i])

\* s.split(sep) for a one-character separator, from position i on, with the
\* part being read in cur
RECURSIVE SplitFrom(_, _, _, _)
SplitFrom(s, sep, i, cur) ==
    IF i > Len(s) THEN <<cur>>
    ELSE IF s[i] = sep THEN <<cur>> \o SplitFrom(s, sep, i + 1, <<>>)
    ELSE SplitFrom(s, sep, i + 1, Append(cur, s[i]))

StrSplit(s, sep) == SplitFrom(s, sep, 1, <<>>)

\* the locales the locale library has data for: <<language, territory>>, the
\* territory empty for a language alone
KnownLocales ==
    { <<<<"e","s">>, <<>>>>, <<<<"e","s">>, <<"E","S">>>>,
      <<<<"f","r">>, <<>>>>, <<<<"f","r">>, <<"F","R">>>> }

ParseFailed == [ok |-> FALSE, language |-> <<>>, territory |-> <<>>]

\* Locale.parse(identifier) with the default separator "_": language, then an
\* optional 4-letter script, an optional territory (2 letters or 3 digits),
\* an optional variant; anything left over, a language that is not
\* alphabetic or a locale without data raises. A territory of <<>> is None.
LocaleParse(identifier) ==
    LET parts == StrSplit(identifier, "_")
        lang == StrLower(parts[1])
        p1 == Tail(parts)
        hasScript == Len(p1) > 0 /\ Len(p1[1]) = 4 /\ IsAlpha(p1[1])
        p2 == IF hasScript THEN Tail(p1) ELSE p1
        hasTerr == Len(p2) > 0
                   /\ \/ Len(p2[1]) = 2 /\ IsAlpha(p2[1])
                      \/ Len(p2[1]) = 3 /\ IsAllDigits(p2[1])
        terr == IF hasTerr
                THEN (IF IsAlpha(p2[1]) THEN StrUpper(p2[1]) ELSE p2[1])
                ELSE <<>>
        p3 == IF hasTerr THEN Tail(p2) ELSE p2
        hasVariant == Len(p3) > 0
                      /\ \/ Len(p3[1]) = 4 /\ IsDigit(p3[1][1])
                         \/ Len(p3[1]) >= 5 /\ IsLetter(p3[1][1])
        p4 == IF hasVariant THEN Tail(p3) ELSE p3
    IN  IF ~IsAlpha(lang) \/ Len(p4) > 0 \/ <<lang, terr>> \notin KnownLocales
        THEN ParseFailed
        ELSE [ok |-> TRUE, language |-> lang, territory |-> terr]

\* lines 20-28: the try block exits with status 1; a territory of None makes
\* the concatenation raise, which the except clause turns into the same exit
TryBlockExits(lu) ==
    LET babel_locale == LocaleParse(lu)
    IN  \/ ~babel_locale.ok
        \/ babel_locale.territory = <<>>
        \/ babel_locale.language \o <<"_">> \o babel_locale.territory # lu

\* the exit status of the hook
HookStatus(loc, lu) ==
    IF ~Contains(loc, <<"-">>) THEN 1
    ELSE IF TryBlockExits(lu) THEN 1
    ELSE IF Contains(loc, <<"_">>) THEN 1
    ELSE IF Contains(lu, <<"-">>) THEN 1
    ELSE 0

HookLangs == { <<"e","s">>, <<"f","r">>, <<"E","S">> }
HookSeps == { <<"-">>, <<"_">> }
HookTerrs == { <<"E","S">>, <<"F","R">>, <<"e","s">> }

\* the values tried for cookiecutter.locale and cookiecutter.locale_underscore
HookStrings ==
    { l \o sp \o t : l \in HookLangs, sp \in HookSeps, t \in HookTerrs }
    \cup { <<>>, <<"-">>, <<"e","s">>, <<"e","s","-","E","S","_","x">>,
           <<"e","s","_","L","a","t","n","_","E","S">> }

InitRunIdle ==
    /\ repoMap = <<>>
    /\ argv = <<>>
    /\ crowdinFile = <<>>
    /\ crowdin0 = <<>>
    /\ crowdinWritten = <<>>
    /\ mirrors = [n \in AllNames |-> NoMirror]
    /\ mirrors0 = mirrors
    /\ reposDir = FALSE
    /\ outer = NoCheckout
    /\ catalogs = <<>>
    /\ catalogs0 = <<>>
    /\ babelOut = <<>>
    /\ pc = "idle"
    /\ packages = <<>>
    /\ idx = 1
    /\ calls = <<>>
    /\ cmds = <<>>
    /\ exitCode = -1

InitHook ==
    /\ locale \in HookStrings
    /\ locale_underscore \in HookStrings
    /\ hookExit = -1
    /\ InitRunIdle

\* the hook runs from its first line to its exit
RunHook ==
    /\ hookExit = -1
    /\ pc = "idle"
    /\ hookExit' = HookStatus(locale, locale_underscore)
    /\ UNCHANGED <<locale, locale_underscore>>
    /\ UNCHANGED runVars

NextHook == RunHook

SpecHook == InitHook /\ [][NextHook]_vars

---------------------------------------------------------------------------
(* update_catalog on its own: every text the extraction tool may write *)

Templates == UNION { [1..k -> Tokens] : k \in 0..MaxTokens }

InitCatalog ==
    /\ \E p \in {S_napari, N_ab} :
          /\ repoMap = [n \in {p} |-> [url |-> UrlOf(n), version |-> "v1"]]
          /\ argv = <<p>>
          /\ packages = <<p>>
          /\ mirrors = [n \in AllNames |->
                           IF n = p THEN [ClonedMirror EXCEPT !.head = "v1"]
                           ELSE NoMirror]
    /\ crowdinFile = update_crowdin_config(<<PairLine(S_files, <<>>)>>, repoMap)
    /\ crowdin0 = crowdinFile
    /\ crowdinWritten = crowdinFile
    /\ mirrors0 = mirrors
    /\ reposDir = TRUE
    /\ outer = OuterCheckout
    /\ \E stale \in BOOLEAN :
          catalogs = [path \in {CatalogOutput(n) :
                                  n \in IF stale THEN DOMAIN repoMap ELSE {}}
                         |-> S_old]
    /\ catalogs0 = catalogs
    /\ babelOut \in Templates
    /\ pc = "repo_done"
    /\ idx = 1
    /\ calls = <<>>
    /\ cmds = <<>>
    /\ exitCode = -1
    /\ InitHookIdle

NextCatalog == UpdateCatalog

SpecCatalog == InitCatalog /\ [][NextCatalog]_vars

---------------------------------------------------------------------------
(* Vocabulary of the properties *)

Terminal == pc \in {"done", "exited", "crashed"}

\* update_crowdin_config was called and returned
SyncReturned == Len(calls) >= 1 /\ calls[1] = Call("update_crowdin_config", <<>>, "ok")

\* the `files` list in crowdin.yml as update_crowdin_config wrote it
Files == SafeLoad(crowdinWritten)[S_files]

\* crowdin.yml is what update_crowdin_config wrote, as long as the run has
\* not reached update_repo (whose git checkout may replace the file)
FileIsAsWritten == pc \in {"synced", "exited"} => crowdinFile = crowdinWritten

Others == DOMAIN repoMap \ {S_napari}

\* the entry of every package name, as a table
EntryOf == [n \in AllNames |-> PluginFileEntry(n)]

\* the number of names of S that sort before n
Rank(n, S) == Cardinality({m \in S : StrLess(m, n)})

CallsOf(fn) == {i \in 1..Len(calls) : calls[i].fn = fn}

---------------------------------------------------------------------------
(* C1 *)

\* C1, as stated: after update_crowdin_config the `files` list it wrote has as
\* many entries as the repository map has packages, the root entry first and
\* the other packages after it in lexicographic order of package name,
\* whether or not the map contains the root package.
C1_FilesLengthIsPackageCount ==
    SyncReturned =>
        LET files == Files
        IN  /\ FileIsAsWritten
            /\ Len(files) = Cardinality(DOMAIN repoMap)
            /\ files[1] = RootFileEntry
            /\ \A i \in 2..Len(files) :
                  \E n \in Others : /\ files[i] = EntryOf[n]
                                    /\ Rank(n, Others) = i - 2

\* C1, amended: after update_crowdin_config the `files` list it wrote (which
\* is the list in crowdin.yml when it returns) has one entry for the root
\* package, always and first, plus one entry per package other than the
\* root, in lexicographic order of package name; its length is the number of
\* packages only when the map contains the root package, and one more when
\* it does not.
C1_RootFirstThenOthersSorted ==
    SyncReturned =>
        LET files == Files
        IN  /\ FileIsAsWritten
            /\ Len(files) = Cardinality(Others) + 1
            /\ (S_napari \in DOMAIN repoMap
                   => Len(files) = Cardinality(DOMAIN repoMap))
            /\ (S_napari \notin DOMAIN repoMap
                   => Len(files) = Cardinality(DOMAIN repoMap) + 1)
            /\ files[1] = RootFileEntry
            /\ \A i \in 2..Len(files) :
                  \E n \in Others : /\ files[i] = EntryOf[n]
                                    /\ Rank(n, Others) = i - 2

\* the synchronizer has run on a map whose root package sorts after another
\* package, and the root entry is first all the same
C1_Witness ==
    /\ SyncReturned
    /\ pc = "synced"
    /\ crowdinFile = crowdinWritten
    /\ S_napari \in DOMAIN repoMap
    /\ N_ab \in DOMAIN repoMap
    /\ Len(Files) = 2
    /\ Files[2] = PluginFileEntry(N_ab)

---------------------------------------------------------------------------
(* C2 *)

\* C2, as stated (and only for a config that has a `files` section): a run
\* with more than one argument leaves the translation config, every mirror
\* and every catalog as they were, and exits with status 0.
C2_NoMutationAtAll ==
    (Len(argv) > 1 /\ ~RaisesKeyError(crowdin0) /\ Terminal) =>
        /\ crowdinFile = crowdin0
        /\ mirrors = mirrors0
        /\ catalogs = catalogs0
        /\ exitCode = 0

\* C2, amended: a run with more than one argument, on a config that has a
\* `files` section, runs the config synchronizer first, which rewrites the
\* translation config (its `files` list becomes the list for the repository
\* map); it then exits with status 0 without the completion notice, having
\* run no external command and created or modified no mirror and no catalog.
C2_OnlyConfigRewritten ==
    (Len(argv) > 1 /\ ~RaisesKeyError(crowdin0)) =>
        /\ mirrors = mirrors0
        /\ catalogs = catalogs0
        /\ cmds = <<>>
        /\ pc \in {"start", "synced", "exited"}
        /\ (pc # "start" => /\ calls = <<Call("update_crowdin_config", <<>>, "ok")>>
                            /\ crowdinFile = crowdinWritten
                            /\ Len(Files) = Cardinality(Others) + 1)
        /\ (pc = "exited" <=> exitCode = 0)

\* a run with two arguments has exited, and the config file is not what it was
C2_Witness ==
    /\ Len(argv) = 2
    /\ pc = "exited"
    /\ exitCode = 0
    /\ crowdinFile # crowdin0
    /\ mirrors = mirrors0

---------------------------------------------------------------------------
(* C3 *)

\* the run has ended, on a config that has a `files` section
Ended == Terminal /\ ~RaisesKeyError(crowdin0)

\* C3, as stated (for a config that has a `files` section): a run with
\* exactly one argument N that has ended has, when N is a key of the
\* repository map, called update_repo and update_catalog exactly once each,
\* for N and for no other package; when N is no key it has run the
\* synchronizer, created or modified no mirror and no catalog, and ended with
\* the completion notice.
C3_ExactlyOnceEach ==
    (Len(argv) = 1 /\ Ended) =>
        LET N == argv[1]
            repo == CallsOf("update_repo")
            cat == CallsOf("update_catalog")
        IN  IF N \in DOMAIN repoMap
            THEN /\ \A i \in repo \cup cat : calls[i].pkg = N
                 /\ Cardinality(repo) = 1
                 /\ Cardinality(cat) = 1
            ELSE /\ SyncReturned
                 /\ repo = {} /\ cat = {}
                 /\ mirrors = mirrors0
                 /\ catalogs = catalogs0
                 /\ pc = "done"

\* C3, amended: in a run with exactly one argument N, when N is a key of the
\* repository map, update_repo and update_catalog are called for N only,
\* never more than once, update_catalog only after update_repo returned; a
\* run that ends with the completion notice has called each exactly once,
\* and a run that ends otherwise was ended by an exception raised in the
\* synchronizer (no call of either), in update_repo (called once,
\* update_catalog never) or in update_catalog (each called once). When N is
\* no key, the synchronizer runs, no command is run, no mirror and no catalog
\* is created or modified, and the run ends with the completion notice and
\* status 0 unless the synchronizer raised.
C3_OneArgumentScope ==
    Len(argv) = 1 =>
        LET N == argv[1]
            repo == CallsOf("update_repo")
            cat == CallsOf("update_catalog")
            last == calls[Len(calls)]
        IN  IF N \in DOMAIN repoMap
            THEN /\ \A i \in repo \cup cat \cup CallsOf("echo_updating") :
                        calls[i].pkg = N
                 /\ Cardinality(repo) <= 1
                 /\ Cardinality(cat) <= 1
                 /\ \A j \in cat : \E i \in repo : i < j /\ calls[i].ret = "ok"
                 /\ (pc = "repo_done" => Cardinality(repo) = 1 /\ cat = {})
                 /\ (pc = "done" => /\ Cardinality(repo) = 1
                                    /\ Cardinality(cat) = 1
                                    /\ \A i \in repo \cup cat : calls[i].ret = "ok"
                                    /\ exitCode = 0)
                 /\ (Terminal /\ pc # "done" =>
                        /\ pc = "crashed"
                        /\ exitCode = 1
                        /\ last.ret = "raised"
                        /\ \A i \in 1..(Len(calls) - 1) : calls[i].ret = "ok"
                        /\ \/ last.fn = "update_crowdin_config"
                              /\ repo = {} /\ cat = {}
                           \/ last.fn = "update_repo"
                              /\ Cardinality(repo) = 1 /\ cat = {}
                           \/ last.fn = "update_catalog"
                              /\ Cardinality(repo) = 1 /\ Cardinality(cat) = 1)
            ELSE /\ repo = {} /\ cat = {}
                 /\ cmds = <<>>
                 /\ mirrors = mirrors0
                 /\ catalogs = catalogs0
                 /\ (pc \notin {"start"} /\ SyncReturned => crowdinFile = crowdinWritten)
                 /\ (Terminal =>
                        \/ /\ SyncReturned
                           /\ pc = "done"
                           /\ exitCode = 0
                           /\ calls = << Call("update_crowdin_config", <<>>, "ok"),
                                         Call("echo_done", <<>>, "ok") >>
                        \/ /\ pc = "crashed"
                           /\ calls = << Call("update_crowdin_config", <<>>, "raised") >>)

\* a run for one package of a map of two has finished: both functions were
\* called once, for that package
C3_Witness ==
    /\ Len(argv) = 1
    /\ pc = "done"
    /\ argv[1] \in DOMAIN repoMap
    /\ Cardinality(DOMAIN repoMap) = 2
    /\ Cardinality(CallsOf("update_repo")) = 1
    /\ Cardinality(CallsOf("update_catalog")) = 1
    /\ mirrors # mirrors0
    /\ catalogs # catalogs0

\* a run for one package was ended by update_repo raising: update_catalog
\* was never called
C3_WitnessAborted ==
    /\ Len(argv) = 1
    /\ pc = "crashed"
    /\ argv[1] \in DOMAIN repoMap
    /\ Cardinality(CallsOf("update_repo")) = 1
    /\ CallsOf("update_catalog") = {}

\* a run for a name the map does not hold has finished, on a map that is not
\* empty
C3_WitnessUnknown ==
    /\ Len(argv) = 1
    /\ pc = "done"
    /\ argv[1] \notin DOMAIN repoMap
    /\ DOMAIN repoMap # {}
    /\ crowdinFile # crowdin0

---------------------------------------------------------------------------
(* C4 *)

\* C4: update_repo clones into the directory named after the package, or
\* fetches in the mirror of that package, then checks the version out in that
\* mirror; when its commands succeed the mirror is at the declared version.
C4_FetchRunsInTheMirror ==
    /\ \A i \in 1..Len(cmds) :
          /\ cmds[i].verb = "clone" =>
                /\ cmds[i].cwd = repos_path
                /\ PathJoin(cmds[i].cwd, cmds[i].operands[2]) \in
                      {clone_path(n) : n \in DOMAIN repoMap}
          /\ cmds[i].verb = "fetch" =>
                /\ i < Len(cmds)
                /\ cmds[i + 1].verb = "checkout"
                /\ cmds[i].cwd = cmds[i + 1].cwd
    /\ \A i \in CallsOf("update_repo") :
          LET p == calls[i].pkg
              mine == {j \in 1..Len(cmds) :
                          \/ cmds[j].verb = "checkout" /\ cmds[j].cwd = clone_path(p)
                          \/ cmds[j].verb = "clone" /\ cmds[j].operands[2] = p}
          IN  (calls[i].ret = "ok" /\ \A j \in mine : cmds[j].rc = 0)
                  => mirrors[p].head = repoMap[p].version

---------------------------------------------------------------------------
(* C5 *)

\* the `source` the config lists for package n
ListedSource(n) ==
    IF n = S_napari THEN Files[1].source ELSE Files[Rank(n, Others) + 2].source

\* C5: the catalog update_catalog wrote for a package is the file the config
\* lists as that package's source (a path below the root of the repository).
C5_CatalogAtListedSource ==
    \A i \in CallsOf("update_catalog") :
        calls[i].ret = "ok" => (REPO_ROOT \o ListedSource(calls[i].pkg)) \in DOMAIN catalogs

---------------------------------------------------------------------------
(* C7 *)

\* C7: a non-zero exit status of an external command is never dropped: a run
\* in which one occurred does not end with the completion notice and status 0.
C7_ToolFailurePropagates ==
    (pc = "done" /\ exitCode = 0) => \A i \in 1..Len(cmds) : cmds[i].rc = 0

---------------------------------------------------------------------------
(* C8 *)

\* C8: for a config that has a `files` section, update_crowdin_config leaves
\* every other top-level section with its key and its value, and adds or
\* removes no section: the file it wrote (which is crowdin.yml when it
\* returns) has the sections of the file it read.
C8_OtherSectionsKept ==
    (SyncReturned /\ S_files \in DOMAIN SafeLoad(crowdin0)) =>
        LET before == SafeLoad(crowdin0)
            after == SafeLoad(crowdinWritten)
        IN  /\ FileIsAsWritten
            /\ DOMAIN after = DOMAIN before
            /\ \A k \in DOMAIN before \ {S_files} : after[k] = before[k]

\* the synchronizer rewrote a file that had a comment, another section before
\* `files` and a stale list
C8_Witness ==
    /\ SyncReturned
    /\ crowdin0[1] = CommentLine
    /\ S_project_id \in DOMAIN SafeLoad(crowdin0)
    /\ pc = "synced"
    /\ crowdinFile = crowdinWritten
    /\ crowdinFile # crowdin0
    /\ Files # SafeLoad(crowdin0)[S_files]
    /\ SafeLoad(crowdinFile)[S_project_id] = <<"1">>

---------------------------------------------------------------------------
(* C10 *)

\* the call a run with no argument makes in position j, over the n packages
\* listed in order
ExpectedCall(j, n, order) ==
    IF j = 1 THEN [fn |-> "update_crowdin_config", pkg |-> <<>>]
    ELSE IF j = 3 * n + 2 THEN [fn |-> "echo_done", pkg |-> <<>>]
    ELSE [fn |-> CASE (j + 1) % 3 = 0 -> "echo_updating"
                   [] (j + 1) % 3 = 1 -> "update_repo"
                   [] (j + 1) % 3 = 2 -> "update_catalog",
          pkg |-> order[(j + 1) \div 3]]

\* order lists every name of S once, in increasing order
IsSortedListOf(order, S) ==
    /\ Len(order) = Cardinality(S)
    /\ {order[i] : i \in 1..Len(order)} = S
    /\ \A i \in 1..(Len(order) - 1) : StrLess(order[i], order[i + 1])

---------------------------------------------------------------------------
(* C6 *)

\* lu is a well-formed locale identifier in its underscore form
WellFormedUnderscore(lu) ==
    LET l == LocaleParse(lu)
    IN  /\ l.ok
        /\ l.territory # <<>>
        /\ l.language \o <<"_">> \o l.territory = lu

\* C6: the hook ends without a non-zero exit only if both values are
\* well-formed and locale_underscore is `locale` with "_" for "-"; it exits
\* with status 1 on each of the five listed conditions.
C6_PassOnlyIfConsistent ==
    hookExit # -1 =>
        /\ hookExit = 0 =>
              /\ WellFormedUnderscore(locale_underscore)
              /\ locale_underscore = StrReplace(locale, <<"-">>, <<"_">>)
        /\ ( \/ ~Contains(locale, <<"-">>)
             \/ ~LocaleParse(locale_underscore).ok
             \/ ~WellFormedUnderscore(locale_underscore)
             \/ Contains(locale, <<"_">>)
             \/ Contains(locale_underscore, <<"-">>) ) => hookExit = 1

\* C6, the half the hook does implement: status 1 on each of the five listed
\* conditions, and status 0 otherwise
C6_FiveConditionsExitOne ==
    hookExit # -1 =>
        (hookExit = 1 <=>
            \/ ~Contains(locale, <<"-">>)
            \/ ~LocaleParse(locale_underscore).ok
            \/ ~WellFormedUnderscore(locale_underscore)
            \/ Contains(locale, <<"_">>)
            \/ Contains(locale_underscore, <<"-">>))

---------------------------------------------------------------------------
(* C9 *)

\* update_catalog was called for the package and returned
CatalogReturned ==
    /\ Len(calls) = 1
    /\ calls[1] = Call("update_catalog", packages[1], "ok")

\* the text update_catalog read back: what the tool wrote, or the file that
\* was there when the tool failed
TextRead ==
    IF cmds[1].rc = 0
    THEN Instantiate(babelOut, package_repo_dir(packages[1]))
    ELSE catalogs0[CatalogOutput(packages[1])]

Occurrences(text, dir) == {i \in 1..Len(text) : OccursAt(text, dir, i)}

\* every occurrence of dir in text starts a file reference: it follows the
\* start of the text or a blank, and a "/" follows it
OnlyFileReferences(text, dir) ==
    \A i \in Occurrences(text, dir) :
        /\ i = 1 \/ text[i - 1] = " "
        /\ i + Len(dir) <= Len(text)
        /\ text[i + Len(dir)] = "/"

\* C9, as stated: after update_catalog the catalog holds no occurrence of the
\* absolute path of the mirror, whatever text the tool wrote.
C9_NoRootPathWhateverText ==
    CatalogReturned =>
        ~Contains(catalogs[CatalogOutput(packages[1])],
                  package_repo_dir(packages[1]))

\* C9, amended: after update_catalog the catalog holds no occurrence of the
\* absolute path of the mirror (a path without blanks), and is the text read
\* less one "<path>/" per occurrence, provided every occurrence of the path
\* in that text starts a file reference: it follows the start of the text or
\* a blank and is followed by "/". An occurrence not followed by "/", or one
\* that the removal of "<path>/" puts together, stays in the catalog.
C9_NoRootPathInFileReferences ==
    LET dir == package_repo_dir(packages[1])
        catalog == catalogs[CatalogOutput(packages[1])]
    IN  (CatalogReturned /\ OnlyFileReferences(TextRead, dir)) =>
            /\ ~Contains(catalog, dir)
            /\ Len(catalog) = Len(TextRead)
                  - Cardinality(Occurrences(TextRead, dir)) * (Len(dir) + 1)

\* the tool wrote two file references and update_catalog stripped both
C9_Witness ==
    /\ CatalogReturned
    /\ cmds[1].rc = 0
    /\ babelOut = <<"REF", "SP", "REF">>
    /\ packages[1] = N_ab
    /\ catalogs[CatalogOutput(N_ab)] = <<"f", " ", "f">>

====
